---- MODULE Spec2Model ----
(***************************************************************************)
(* The streaming content script of Open Immerse Translate                  *)
(* (src/unnamed/part_001): TranslationState, the translation queue, the    *)
(* dispatch loop processQueue, translateSingle, the scroll / mutation /    *)
(* periodic watchers and stopTranslation / removeAllTranslations.          *)
(*                                                                         *)
(* JavaScript runs every callback to completion, so one action is one      *)
(* callback (a command, a timer, an event, the continuation of an await).  *)
(* The handlers are written as operators from a state record to a state    *)
(* record, so that a handler that calls another one (processQueue calls    *)
(* translateSingle, which may call stopTranslation) is one action.         *)
(***************************************************************************)
EXTENDS Integers, Sequences, FiniteSets, TLC

\* ------------------------------------------------------------ constants
MAX_CONCURRENT == 6
MAX_QUEUE_SIZE == 100
MAX_VIEWPORT_SCAN == 300
MIN_TEXT_LENGTH == 2

\* ------------------------------------------------------------ the page
\* The text-bearing elements of a document, each with direct text (each is
\* translated in Replace mode), numbered in the order collectViewportBlocks
\* visits them: the primary elements (h1..h6, p, ...) before the secondary
\* ones (li, td, a, ...), which is not the visual order.  A page is a set
\* of these elements.  Elements 2 and 10 carry the same text as element 1;
\* every other element has a text of its own.  Element 3 stands above element 1,
\* element 2 below the first screen, and the elements from 4 on share one
\* row of the first screen.
NodeTop(n) == IF n = 1 THEN 40 ELSE IF n = 2 THEN 180 ELSE IF n = 3 THEN 0 ELSE 60
NodeText(n) == IF n = 2 \/ n = 10 THEN 1 ELSE n
\* The characters of the text of an element, for the elements 1 to 3 (the
\* texts of the later elements differ in characters that are not followed).
NodeChars(n) == IF n = 3 THEN <<"o", " ", "O">> ELSE <<"O", "o">>
NodeTextLength(n) == Len(NodeChars(n))
NodeHeight == 10
ViewportHeight == 100

\* ------------------------------------------------------------ scenarios
\* A scenario is an initial state.  It fixes the elements of the page
\* (page), the scroll offsets the user moves between (positions), the
\* outcomes the backend produces (backend) and three bounds of the model:
\* maxOut, the translate calls the network holds at a time; maxLeft, the
\* idle callbacks and periodic timer chains of earlier sessions that may
\* still be pending when a session starts; stopsLeft, the stop and restore
\* commands still to come (-1: any number).

VARIABLES
  isActive, shouldStop, translatedCount, completedElements, processedTexts,
  translationQueue, activeTranslations, isProcessing,
  pendingElements, translatingElements,
  scrollTimer, mutationTimer, periodicScanTimer,
  mutationObserver, scrollHandler, observer,
  translatedCheckCache, contextWarningShown,
  oitPending, oitTranslating, wrapped, detached,
  contextValid, scrollY, calls, sleepers, looseChains, idleCallbacks,
  page, positions, maxOut, maxLeft, stopsLeft, backend, applyCalls,
  quietBroken, doneBroken, skipped, skipRetried,
  retry, emitted, shown, logLen, enqueued, issued, batch,
  appendMode, translationEls, issuedAt, watchersAt,
  lastScrollY, scrollTimers, scanned, sep, limiter

vars == <<isActive, shouldStop, translatedCount, completedElements, processedTexts,
  translationQueue, activeTranslations, isProcessing,
  pendingElements, translatingElements,
  scrollTimer, mutationTimer, periodicScanTimer,
  mutationObserver, scrollHandler, observer,
  translatedCheckCache, contextWarningShown,
  oitPending, oitTranslating, wrapped, detached,
  contextValid, scrollY, calls, sleepers, looseChains, idleCallbacks,
  page, positions, maxOut, maxLeft, stopsLeft, backend, applyCalls,
  quietBroken, doneBroken, skipped, skipRetried,
  retry, emitted, shown, logLen, enqueued, issued, batch,
  appendMode, translationEls, issuedAt, watchersAt,
  lastScrollY, scrollTimers, scanned, sep, limiter>>

\* The program state as one record.  records holds the nodes the running
\* callback has added to the tree, which the MutationObserver is told about
\* when the callback has ended.
Cur == [
  records |-> {},
  isActive |-> isActive, shouldStop |-> shouldStop,
  translatedCount |-> translatedCount, completedElements |-> completedElements,
  processedTexts |-> processedTexts, translationQueue |-> translationQueue,
  activeTranslations |-> activeTranslations, isProcessing |-> isProcessing,
  pendingElements |-> pendingElements, translatingElements |-> translatingElements,
  scrollTimer |-> scrollTimer, mutationTimer |-> mutationTimer,
  periodicScanTimer |-> periodicScanTimer,
  mutationObserver |-> mutationObserver, scrollHandler |-> scrollHandler,
  observer |-> observer,
  translatedCheckCache |-> translatedCheckCache,
  contextWarningShown |-> contextWarningShown,
  oitPending |-> oitPending, oitTranslating |-> oitTranslating,
  wrapped |-> wrapped, detached |-> detached,
  contextValid |-> contextValid, scrollY |-> scrollY, calls |-> calls,
  sleepers |-> sleepers, looseChains |-> looseChains,
  idleCallbacks |-> idleCallbacks,
  page |-> page, positions |-> positions, maxOut |-> maxOut,
  maxLeft |-> maxLeft, stopsLeft |-> stopsLeft, backend |-> backend,
  applyCalls |-> applyCalls,
  quietBroken |-> quietBroken, doneBroken |-> doneBroken,
  skipped |-> skipped, skipRetried |-> skipRetried,
  retry |-> retry, emitted |-> emitted, shown |-> shown,
  logLen |-> logLen, enqueued |-> enqueued, issued |-> issued,
  batch |-> batch,
  appendMode |-> appendMode, translationEls |-> translationEls,
  issuedAt |-> issuedAt, watchersAt |-> watchersAt,
  lastScrollY |-> lastScrollY, scrollTimers |-> scrollTimers,
  scanned |-> scanned, sep |-> sep, limiter |-> limiter ]


\* ------------------------------------------------------------ service worker
\* withRetry(fn, maxRetries = 3, baseDelay = 2000) of the service worker, for
\* the one request handleTranslate is serving.  retry.phase is where the
\* request stands: "idle" (no request), "calling" (fn is awaited),
\* "sleeping" (sleep(delay) is awaited), "returned", "thrown", "answered"
\* (sendResponse has run and the content script has resumed).  The record
\* keeps what the request has done so far: the number of times fn was
\* invoked, the message of every error fn threw, the delays slept.
DefaultMaxRetries == 3
DefaultBaseDelay == 2000

\* An error message, by what withRetry looks for in it: whether there is a
\* message at all, and which of the four marker strings it contains.
Markers == {"concurrency", "rate limit", "too many requests", "429"}
Messages ==
  {[empty |-> TRUE, marks |-> {}]} \cup
  {[empty |-> FALSE, marks |-> m] : m \in {{}} \cup {{x} : x \in Markers}}

isRateLimitError(msg) == ~msg.empty /\ msg.marks # {}

RECURSIVE Pow2(_)
Pow2(k) == IF k = 0 THEN 1 ELSE 2 * Pow2(k - 1)

RetryIdle ==
  [phase |-> "idle", attempt |-> 0, maxRetries |-> DefaultMaxRetries,
   baseDelay |-> DefaultBaseDelay, invocations |-> 0, errors |-> <<>>,
   delays |-> <<>>, node |-> 0]

\* The head of the for loop: the next invocation of fn, or throw lastError.
withRetryLoop(r) ==
  IF r.attempt < r.maxRetries
  THEN [r EXCEPT !.phase = "calling", !.invocations = @ + 1]
  ELSE [r EXCEPT !.phase = "thrown"]

withRetry(maxRetries, baseDelay) ==
  withRetryLoop([RetryIdle EXCEPT !.maxRetries = maxRetries, !.baseDelay = baseDelay])

\* Variant of the catch block whose delay does not grow.
withRetryCatchFlatDelay(r, msg) ==
  LET r1 == [r EXCEPT !.errors = Append(@, msg)]
  IN IF isRateLimitError(msg) /\ r.attempt < r.maxRetries - 1
     THEN [r1 EXCEPT !.phase = "sleeping", !.delays = Append(@, r.baseDelay)]
     ELSE IF ~isRateLimitError(msg) THEN [r1 EXCEPT !.phase = "thrown"]
     ELSE withRetryLoop([r1 EXCEPT !.attempt = @ + 1])

\* The catch block: fn threw an error with message msg.
withRetryCatch(r, msg) ==
  LET r1 == [r EXCEPT !.errors = Append(@, msg)]
  IN IF isRateLimitError(msg) /\ r.attempt < r.maxRetries - 1
     THEN [r1 EXCEPT !.phase = "sleeping",
                     !.delays = Append(@, r.baseDelay * Pow2(r.attempt))]
     ELSE IF ~isRateLimitError(msg) THEN [r1 EXCEPT !.phase = "thrown"]
     ELSE withRetryLoop([r1 EXCEPT !.attempt = @ + 1])

\* sleep(delay) is over: continue.
withRetryContinue(r) == withRetryLoop([r EXCEPT !.attempt = @ + 1])

\* A translation, as the list of its characters; none is shown at first.
\* The backend answers with any text of up to MaxTranslationLen characters.
NoTranslation == <<>>
MaxTranslationLen == 3
Chars == {"o", "O", " ", "x"}
Translations == UNION {[1..k -> Chars] : k \in 0..MaxTranslationLen}

\* ------------------------------------------------------------ helpers
\* The translate calls that have been issued and have not settled.
Outstanding(c) == Cardinality(UNION {{k} \X (1..c[k]) : k \in DOMAIN c})

\* A block as the collectors build it: { element, textNode, text }.  The
\* text node is the element's own one, so the element stands for it.
Block(n) == [element |-> n, text |-> NodeText(n)]

QueueHas(q, n) == \E i \in 1..Len(q) : q[i].element = n

\* Variant of Inactive that looks at shouldStop alone.
InactiveStopOnly(s) == s.shouldStop

Inactive(s) == ~s.isActive \/ s.shouldStop

\* No session: before the first start, and from stopTranslation to the next
\* start (cleanupInvalidContext leaves shouldStop set instead).
Idle(s) == ~s.isActive /\ ~s.shouldStop

\* The log of a session, kept while it has fewer than logLen entries: the
\* elements in the order addToQueue takes them, with a 0 where a sweep
\* begins, and the elements in the order their translate calls are sent.
\* issuedAt holds, for each call of issued, the length of enqueued when it
\* was sent, and watchersAt the lengths of enqueued and issued when
\* startTranslation started the watchers.
SweepMark == 0
LogOpen(s) == Len(s.enqueued) < s.logLen
LogSweep(s) ==
  IF LogOpen(s) /\ (s.enqueued = <<>> \/ s.enqueued[Len(s.enqueued)] # SweepMark)
  THEN [s EXCEPT !.enqueued = Append(@, SweepMark)] ELSE s
LogEnqueue(s, n) == IF LogOpen(s) THEN [s EXCEPT !.enqueued = Append(@, n)] ELSE s
LogIssue(s, n) ==
  IF LogOpen(s)
  THEN [s EXCEPT !.issued = Append(@, n), !.issuedAt = Append(@, Len(s.enqueued))]
  ELSE s
LogWatchers(s) ==
  IF s.logLen > 0 THEN [s EXCEPT !.watchersAt = <<Len(s.enqueued), Len(s.issued)>>]
  ELSE s

\* ------------------------------------------------------------ markers
markAsPending(s, n) ==
  IF n \in s.oitPending THEN s
  ELSE [s EXCEPT !.oitPending = @ \cup {n}, !.pendingElements = @ \cup {n}]

\* Variant of removePendingMark that leaves the class oit-translating-text.
removePendingMarkOnly(s, n) ==
  [s EXCEPT !.oitPending = @ \ {n},
            !.pendingElements = @ \ {n}, !.translatingElements = @ \ {n}]

removePendingMark(s, n) ==
  [s EXCEPT !.oitPending = @ \ {n}, !.oitTranslating = @ \ {n},
            !.pendingElements = @ \ {n}, !.translatingElements = @ \ {n}]

markAsTranslating(s, n) ==
  [s EXCEPT !.oitPending = @ \ {n}, !.oitTranslating = @ \cup {n},
            !.pendingElements = @ \ {n}, !.translatingElements = @ \cup {n}]

\* ------------------------------------------------------------ dedup cache
\* isAlreadyTranslated: the memoized answer, then the first computation.
\* The elements are children of body, so the ancestor walk finds nothing.
isAlreadyTranslated(s, n) ==
  IF s.translatedCheckCache[n] # "miss" THEN s.translatedCheckCache[n] = "true"
  ELSE n \in s.completedElements \/ n \in s.wrapped

\* The state isAlreadyTranslated leaves: the answer is stored on a miss.
isAlreadyTranslatedMemo(s, n) ==
  IF s.translatedCheckCache[n] # "miss" THEN s
  ELSE [s EXCEPT !.translatedCheckCache[n] =
          IF n \in s.completedElements \/ n \in s.wrapped THEN "true" ELSE "false"]

\* ------------------------------------------------------------ TranslationState
\* The timeouts of the scroll handler that are pending, each with its
\* delay, oldest first; state.scrollTimer, when it names a pending one,
\* names the newest.  clearTimeout(state.scrollTimer):
ClearNamed(s) ==
  IF s.scrollTimer /\ s.scrollTimers # <<>>
  THEN SubSeq(s.scrollTimers, 1, Len(s.scrollTimers) - 1) ELSE s.scrollTimers

\* Variant of reset that also forgets the completed elements.
resetForgetsCompleted(s) ==
  [s EXCEPT !.isActive = FALSE, !.shouldStop = FALSE, !.translatedCount = 0,
            !.translationQueue = <<>>, !.activeTranslations = 0,
            !.isProcessing = FALSE, !.completedElements = {},
            !.pendingElements = {}, !.translatingElements = {},
            !.scrollTimer = FALSE, !.mutationTimer = FALSE,
            !.scrollTimers = ClearNamed(s),
            !.periodicScanTimer = FALSE,
            !.mutationObserver = FALSE, !.scrollHandler = FALSE,
            !.lastScrollY = 0]

reset(s) ==
  [s EXCEPT !.isActive = FALSE, !.shouldStop = FALSE, !.translatedCount = 0,
            !.translationQueue = <<>>, !.activeTranslations = 0,
            !.isProcessing = FALSE,
            !.pendingElements = {}, !.translatingElements = {},
            !.scrollTimer = FALSE, !.mutationTimer = FALSE,
            !.scrollTimers = ClearNamed(s),
            !.periodicScanTimer = FALSE,
            !.mutationObserver = FALSE, !.scrollHandler = FALSE,
            !.lastScrollY = 0]

showContextInvalidatedWarning(s) == [s EXCEPT !.contextWarningShown = TRUE]

\* Variant of stopTranslation that keeps account only of the calls of the
\* session it stops.
stopTranslationDropsStale(s) ==
  LET s1 == [s EXCEPT !.shouldStop = TRUE, !.isActive = FALSE,
                      !.translationQueue = <<>>, !.isProcessing = FALSE,
                      !.observer = {}, !.mutationObserver = FALSE,
                      !.scrollHandler = FALSE,
                      !.oitPending = @ \ s.pendingElements,
                      !.oitTranslating = @ \ s.translatingElements]
      s2 == reset(s1)
  IN [s2 EXCEPT !.calls = [k \in DOMAIN s.calls |->
                              IF k[2] THEN s.calls[<<k[1], FALSE>>] ELSE 0]]

\* stopTranslation.  Every translate call that is outstanding now is marked
\* as one of a stopped session (calls[<<n, TRUE>>]).
stopTranslation(s) ==
  LET s1 == [s EXCEPT !.shouldStop = TRUE, !.isActive = FALSE,
                      !.translationQueue = <<>>, !.isProcessing = FALSE,
                      !.observer = {}, !.mutationObserver = FALSE,
                      !.scrollHandler = FALSE,
                      !.oitPending = @ \ s.pendingElements,
                      !.oitTranslating = @ \ s.translatingElements]
      s2 == reset(s1)
  IN [s2 EXCEPT !.calls = [k \in DOMAIN s.calls |->
                              IF k[2] THEN s.calls[<<k[1], TRUE>>] + s.calls[<<k[1], FALSE>>]
                              ELSE 0]]

cleanupInvalidContext(s) ==
  LET s1 == showContextInvalidatedWarning(s)
  IN IF s1.isActive THEN [s1 EXCEPT !.isActive = FALSE, !.shouldStop = TRUE] ELSE s1

\* ------------------------------------------------------------ the queue
\* Variant of addToQueue that makes room by removing the newest entry.
addToQueueDropsNewest(s, b) ==
  IF b.element \in s.completedElements THEN s
  ELSE IF QueueHas(s.translationQueue, b.element) THEN s
  ELSE LET q == IF Len(s.translationQueue) >= MAX_QUEUE_SIZE
                THEN SubSeq(s.translationQueue, 1, Len(s.translationQueue) - 1)
                ELSE s.translationQueue
           s1 == [s EXCEPT !.translationQueue = Append(q, b),
                    !.quietBroken = @ \/ Idle(s),
                    !.doneBroken = @ \/ (b.element \in s.completedElements),
                    !.skipRetried = @ \/ (b.element \in s.skipped)]
       IN markAsPending(LogEnqueue(s1, b.element), b.element)

addToQueue(s, b) ==
  IF b.element \in s.completedElements THEN s
  ELSE IF QueueHas(s.translationQueue, b.element) THEN s
  ELSE LET q == IF Len(s.translationQueue) >= MAX_QUEUE_SIZE
                THEN Tail(s.translationQueue) ELSE s.translationQueue
           s1 == [s EXCEPT !.translationQueue = Append(q, b),
                    !.quietBroken = @ \/ Idle(s),
                    !.doneBroken = @ \/ (b.element \in s.completedElements),
                    !.skipRetried = @ \/ (b.element \in s.skipped)]
       IN markAsPending(LogEnqueue(s1, b.element), b.element)

\* translateSingle up to its await: the three early returns, then the call.
translateSingle(s, b) ==
  IF ~s.contextValid THEN stopTranslation(showContextInvalidatedWarning(s))
  ELSE IF Inactive(s) THEN removePendingMark(s, b.element)
  ELSE IF isAlreadyTranslated(s, b.element)
       THEN removePendingMark(isAlreadyTranslatedMemo(s, b.element), b.element)
  ELSE LET s1 == isAlreadyTranslatedMemo(s, b.element)
           s2 == [s1 EXCEPT !.activeTranslations = @ + 1,
                    !.calls[<<b.element, FALSE>>] = @ + 1,
                    !.quietBroken = @ \/ Idle(s),
                    !.doneBroken = @ \/ (b.element \in s.completedElements),
                    !.skipRetried = @ \/ (b.element \in s.skipped)]
       IN markAsTranslating(LogIssue(s2, b.element), b.element)

RECURSIVE LoopTop(_), WaitSlot(_), Dispatch(_)

\* processQueue: the condition of the outer while.
LoopTop(s) ==
  IF Len(s.translationQueue) > 0 /\ ~Inactive(s) THEN WaitSlot(s)
  ELSE [s EXCEPT !.isProcessing = FALSE]

\* processQueue: the inner while; the loop is suspended in sleep(50).
WaitSlot(s) ==
  IF s.activeTranslations >= MAX_CONCURRENT THEN [s EXCEPT !.sleepers = @ + 1]
  ELSE Dispatch(s)

\* processQueue: the rest of the body, from the check after the inner while.
Dispatch(s) ==
  IF Inactive(s) THEN [s EXCEPT !.isProcessing = FALSE]
  ELSE IF Len(s.translationQueue) = 0 THEN LoopTop(s)
  ELSE LET b == Head(s.translationQueue)
           s1 == [s EXCEPT !.translationQueue = Tail(@)]
       IN IF b.element \in s1.completedElements THEN LoopTop(s1)
          ELSE LoopTop(translateSingle(s1, b))

processQueue(s) ==
  IF s.isProcessing THEN s
  ELSE IF Inactive(s) THEN s
  ELSE LoopTop([s EXCEPT !.isProcessing = TRUE])

\* Variant of processQueueWake in which the resumed loop returns at once and
\* leaves state.isProcessing set.
processQueueWakeReturns(s) == [s EXCEPT !.sleepers = @ - 1]

\* A loop suspended in sleep(50) resumes.
processQueueWake(s) ==
  LET s1 == [s EXCEPT !.sleepers = @ - 1]
  IN IF Inactive(s1) THEN [s1 EXCEPT !.isProcessing = FALSE]
     ELSE WaitSlot(s1)


\* ------------------------------------------------------------ discovery
\* rect.bottom < -viewportHeight * 0.5 || rect.top > viewportHeight * 1.5
InRegion(s, n) ==
  LET top == NodeTop(n) - s.scrollY
      bottom == top + NodeHeight
  IN ~(2 * bottom < -ViewportHeight \/ 2 * top > 3 * ViewportHeight)

\* Variant of SortByTop that leaves the blocks in the order of collection.
SortByTopNot(seq) == seq

\* blocks.sort((a, b) => aRect.top - bRect.top): the sort is stable, so a
\* block goes after the ones that stand higher and after the earlier ones
\* that stand as high.
SortByTop(seq) ==
  LET Before(i, j) == \/ NodeTop(seq[i].element) < NodeTop(seq[j].element)
                      \/ /\ NodeTop(seq[i].element) = NodeTop(seq[j].element)
                         /\ i < j
      Rank(j) == 1 + Cardinality({i \in 1..Len(seq) : Before(i, j)})
  IN [k \in 1..Len(seq) |-> seq[CHOOSE j \in 1..Len(seq) : Rank(j) = k]]

\* collectElementsWithTextOptimized, one element: is it collected, given
\* the texts seen so far in this scan and the number of blocks so far.
Collectable(s, n, seen, count) ==
  /\ n \in s.page
  /\ count < MAX_VIEWPORT_SCAN
  /\ n \notin s.completedElements
  /\ InRegion(s, n)
  /\ n \notin s.oitPending
  /\ (n \in s.appendMode => n \notin s.wrapped)
  /\ NodeTextLength(n) >= MIN_TEXT_LENGTH
  /\ NodeText(n) \notin seen

\* The loop over the elements from lo to hi in document order; acc holds
\* seenInThisScan and the blocks collected so far.  The range is walked by
\* halves, and what the first half leaves is computed before the second
\* half starts, so that a long page is evaluated at a small depth.
RECURSIVE CollectRange(_, _, _, _)
CollectRange(s, lo, hi, acc) ==
  IF lo > hi THEN acc
  ELSE IF lo = hi
       THEN IF Collectable(s, lo, acc.seen, Len(acc.blocks))
            THEN [seen |-> acc.seen \cup {NodeText(lo)},
                  blocks |-> Append(acc.blocks, Block(lo))]
            ELSE acc
  ELSE LET mid == (lo + hi) \div 2
           a1 == CollectRange(s, lo, mid, acc)
       IN IF Len(a1.blocks) >= 0 THEN CollectRange(s, mid + 1, hi, a1) ELSE a1

CollectFrom(s, n, seen, blocks) ==
  LET last == CHOOSE m \in s.page : \A k \in s.page : k <= m
  IN CollectRange(s, n, last, [seen |-> seen, blocks |-> blocks]).blocks

collectViewportBlocks(s) == SortByTop(CollectFrom(s, 1, {}, <<>>))

RECURSIVE QueueNew(_, _, _)
\* The forEach of scanViewportAndQueue; returns the state and addedCount.
QueueNew(s, blocks, added) ==
  IF blocks = <<>> THEN [st |-> s, added |-> added]
  ELSE LET b == Head(blocks)
       IN IF b.element \in s.completedElements \/ QueueHas(s.translationQueue, b.element)
          THEN QueueNew(s, Tail(blocks), added)
          ELSE QueueNew(addToQueue(s, b), Tail(blocks), added + 1)

scanViewportAndQueue(s) ==
  IF Inactive(s) THEN s
  ELSE LET r == QueueNew(LogSweep(s), collectViewportBlocks(s), 0)
       IN IF r.added > 0 THEN processQueue(r.st) ELSE r.st

\* viewportBlocks.forEach(block => addToQueue(block)), for the blocks from
\* lo to hi in order.  The range is walked by halves, and the state the
\* first half leaves is computed before the second half starts, so that a
\* long list is evaluated at a small depth.
RECURSIVE AddRange(_, _, _, _)
AddRange(s, blocks, lo, hi) ==
  IF lo > hi THEN s
  ELSE IF lo = hi THEN addToQueue(s, blocks[lo])
  ELSE LET mid == (lo + hi) \div 2
           s1 == AddRange(s, blocks, lo, mid)
       IN IF s1.isActive = s.isActive
          THEN AddRange(s1, blocks, mid + 1, hi) ELSE s1

\* Variant of AddAll that starts the dispatch loop after every block.
RECURSIVE AddAllDispatching(_, _)
AddAllDispatching(s, blocks) ==
  IF blocks = <<>> THEN s
  ELSE AddAllDispatching(processQueue(addToQueue(s, Head(blocks))), Tail(blocks))

AddAll(s, blocks) == AddRange(s, blocks, 1, Len(blocks))

\* collectTextBlocks: the texts it adds to state.processedTexts (every text
\* of the page outside a translation wrapper), and the blocks it returns.
collectTextBlocksTexts(s) ==
  s.processedTexts \cup {NodeText(n) : n \in s.page \ s.wrapped}

RECURSIVE collectTextNodes(_, _, _, _)
collectTextNodes(s, n, texts, blocks) ==
  IF \A m \in s.page : m < n THEN blocks
  ELSE IF n \in s.page /\ n \notin s.wrapped /\ NodeText(n) \notin texts
       THEN collectTextNodes(s, n + 1, texts \cup {NodeText(n)}, Append(blocks, Block(n)))
       ELSE collectTextNodes(s, n + 1, texts, blocks)

\* scanAndObserveAll: the filter reads the set collectTextBlocks has just
\* extended, and the elements that pass it are handed to the observer.
scanAndObserveAll(s) ==
  IF Inactive(s) THEN s
  ELSE LET allBlocks == collectTextNodes(s, 1, s.processedTexts, <<>>)
           s1 == [s EXCEPT !.processedTexts = collectTextBlocksTexts(s)]
           newBlocks == {allBlocks[i].element : i \in
                           {j \in 1..Len(allBlocks) :
                              /\ allBlocks[j].text \notin s1.processedTexts
                              /\ allBlocks[j].element \notin s1.completedElements}}
       IN [s1 EXCEPT !.observer = IF newBlocks # {} THEN newBlocks ELSE @]

\* ------------------------------------------------------------ scroll watcher
SCROLL_DEBOUNCE == 100
FastScrollDelay == 50
FastScrollDistance == 200

Abs(x) == IF x < 0 THEN -x ELSE x

\* Variant of the scroll handler that leaves the pending timeout in place.
scrollHandlerNoCancel(s) ==
  IF Inactive(s) THEN s
  ELSE LET scrollDelta == Abs(s.scrollY - s.lastScrollY)
           delay == IF scrollDelta > FastScrollDistance
                    THEN FastScrollDelay ELSE SCROLL_DEBOUNCE
       IN [s EXCEPT !.lastScrollY = s.scrollY,
                    !.scrollTimers = Append(@, delay),
                    !.scrollTimer = TRUE]

\* state.scrollHandler of startScrollListener; lastScrollY is the variable
\* of its closure (0 while there is no handler).
scrollHandlerRun(s) ==
  IF Inactive(s) THEN s
  ELSE LET scrollDelta == Abs(s.scrollY - s.lastScrollY)
           delay == IF scrollDelta > FastScrollDistance
                    THEN FastScrollDelay ELSE SCROLL_DEBOUNCE
       IN [s EXCEPT !.lastScrollY = s.scrollY,
                    !.scrollTimers = Append(ClearNamed(s), delay),
                    !.scrollTimer = TRUE]

\* ------------------------------------------------------------ commands
startTranslation(s) ==
  IF s.isActive THEN s
  ELSE LET s1 == LogSweep([reset(s) EXCEPT !.isActive = TRUE, !.skipped = {},
                              !.applyCalls = [n \in s.page |-> 0],
                              !.enqueued = <<>>, !.issued = <<>>,
                              !.issuedAt = <<>>, !.watchersAt = <<>>])
           viewportBlocks == collectViewportBlocks(s1)
           s2 == IF Len(viewportBlocks) > 0
                 THEN processQueue(AddAll(s1, viewportBlocks)) ELSE s1
           \* startScrollListener, startMutationObserver, requestIdleCallback,
           \* startPeriodicScan: each runs whatever the sweep did.
       IN [LogWatchers(s2) EXCEPT
             !.scrollHandler = TRUE, !.lastScrollY = s2.scrollY,
             !.mutationObserver = TRUE,
             !.idleCallbacks = @ + 1, !.periodicScanTimer = TRUE]

\* removeAllTranslations: stopTranslation, then every wrapper gives its
\* place to a new text node holding the original text.
removeAllTranslations(s) ==
  LET s1 == stopTranslation(s)
  IN [s1 EXCEPT !.oitPending = @ \ s1.pendingElements,
                !.oitTranslating = @ \ s1.translatingElements,
                !.wrapped = {},
                !.translationEls = [n \in DOMAIN @ |->
                                      IF n \in s1.wrapped /\ @[n] > 0
                                      THEN @[n] - 1 ELSE @[n]]]

\* ------------------------------------------------------------ applying
\* Variant of applyTranslation whose append branch does not look for a
\* translation element in the container.
applyTranslationAppendsAgain(s, b) ==
  LET n == b.element
      s1 == [removePendingMark(s, n) EXCEPT !.applyCalls[n] = IF @ < 2 THEN @ + 1 ELSE @]
      s2 == isAlreadyTranslatedMemo(s1, n)
  IN IF isAlreadyTranslated(s1, n) THEN s2
     ELSE IF n \in s2.appendMode
          THEN [s2 EXCEPT !.translationEls[n] = @ + 1, !.wrapped = @ \cup {n},
                  !.records = @ \cup {[parent |-> n, class |-> "oit-translation"]}]
     ELSE IF n \in s2.detached THEN s2
     ELSE IF n \in s2.wrapped THEN s2
     ELSE [s2 EXCEPT !.wrapped = @ \cup {n}, !.detached = @ \cup {n},
             !.records = @ \cup {[parent |-> n, class |-> "oit-wrapper"]}]

\* applyTranslation.  An element of appendMode has no text node of its own
\* (block.textNode is null): the translation is appended to it as a child
\* and it gets the class oit-wrapper; translationEls counts these children.
applyTranslation(s, b) ==
  LET n == b.element
      s1 == [removePendingMark(s, n) EXCEPT !.applyCalls[n] = IF @ < 2 THEN @ + 1 ELSE @]
      s2 == isAlreadyTranslatedMemo(s1, n)
  IN IF isAlreadyTranslated(s1, n) THEN s2
     ELSE IF n \in s2.appendMode
          THEN IF s2.translationEls[n] > 0 THEN s2
               ELSE [s2 EXCEPT !.translationEls[n] = @ + 1, !.wrapped = @ \cup {n},
                       !.records = @ \cup {[parent |-> n, class |-> "oit-translation"]}]
     ELSE IF n \in s2.detached THEN s2
     ELSE IF n \in s2.wrapped THEN s2
     ELSE [s2 EXCEPT !.wrapped = @ \cup {n}, !.detached = @ \cup {n},
             !.records = @ \cup {[parent |-> n, class |-> "oit-wrapper"]}]

\* if (state.translatedCount % 5 === 0) notifyProgress(...): the events the
\* content script has sent to the popup are kept by kind.
notifyProgressEvery5(s) ==
  IF s.translatedCount % 5 = 0 THEN [s EXCEPT !.emitted = @ \cup {"progress"}] ELSE s

\* notifyComplete, which no function of the content script calls.
notifyComplete(s) ==
  LET s1 == [s EXCEPT !.isActive = FALSE]
  IN IF s1.contextValid THEN [s1 EXCEPT !.emitted = @ \cup {"complete"}] ELSE s1

\* ------------------------------------------------------------ isSameContent
\* str.replace(/\s+/g, ' '): every run of white space becomes one space.
ReplaceWhitespace(str) ==
  LET keep == {i \in 1..Len(str) : ~(str[i] = " " /\ i > 1 /\ str[i - 1] = " ")}
      Nth(k) == CHOOSE i \in keep : Cardinality({j \in keep : j < i}) = k - 1
  IN [k \in 1..Cardinality(keep) |-> str[Nth(k)]]

\* str.trim()
Trim(str) ==
  LET solid == {i \in 1..Len(str) : str[i] # " "}
  IN IF solid = {} THEN <<>>
     ELSE LET lo == CHOOSE i \in solid : \A j \in solid : i <= j
              hi == CHOOSE i \in solid : \A j \in solid : j <= i
          IN SubSeq(str, lo, hi)

\* str.toLowerCase()
ToLowerCase(str) == [i \in 1..Len(str) |-> IF str[i] = "O" THEN "o" ELSE str[i]]

Normalized(str) == ToLowerCase(Trim(ReplaceWhitespace(str)))

isSameContent(original, translation) == Normalized(original) = Normalized(translation)

\* Variant of AnswerOutcome without the isSameContent test.
AnswerOutcomeExactOnly(text, translation) ==
  IF translation # <<>> /\ translation # text THEN "ok" ELSE "same"

\* translation && translation !== block.text && !isSameContent(...): whether
\* the translation of a response is applied ("ok") or not ("same").
AnswerOutcome(text, translation) ==
  IF translation # <<>> /\ translation # text /\ ~isSameContent(text, translation)
  THEN "ok" ELSE "same"

\* translateSingle from the end of its await: stale is TRUE for a call that
\* was outstanding when stopTranslation ran.
Outcomes == {"ok", "same", "error", "throw", "ctx"}

translateSingleResume(s, n, stale, outcome) ==
  LET b == Block(n)
      s0 == [s EXCEPT !.calls[<<n, stale>>] = @ - 1]
      body ==
        IF outcome = "ctx" THEN stopTranslation(showContextInvalidatedWarning(s0))
        ELSE IF outcome = "throw" THEN removePendingMark(s0, n)
        ELSE IF Inactive(s0) THEN removePendingMark(s0, n)
        ELSE IF outcome = "error"
             THEN [removePendingMark(s0, n) EXCEPT !.skipped = @ \cup {n}]
        ELSE LET s1 == IF outcome = "ok"
                       THEN notifyProgressEvery5(
                              [applyTranslation(s0, b) EXCEPT
                                 !.translatedCount = @ + 1])
                       ELSE removePendingMark(s0, n)
             IN [s1 EXCEPT !.completedElements = @ \cup {n}]
      fin == [body EXCEPT !.activeTranslations = @ - 1]
  IN IF ~Inactive(fin) /\ Len(fin.translationQueue) > 0 /\ ~fin.isProcessing
     THEN processQueue(fin) ELSE fin

\* The same for a response { translations: [translation] }: the wrapper that
\* applyTranslation inserts holds the translation.
translateSingleAnswer(s, n, stale, translation) ==
  LET s1 == translateSingleResume(s, n, stale, AnswerOutcome(NodeChars(n), translation))
  IN IF n \in s1.wrapped \ s.wrapped THEN [s1 EXCEPT !.shown[n] = translation] ELSE s1

\* ------------------------------------------------------------ timers
\* adaptiveScan of startPeriodicScan; the timer it sets is known only to
\* the closure, so state.periodicScanTimer keeps the id of the first one.
\* scanned holds, when logs are kept, what the last run did: the queue
\* length it read, the delay of the timer it set and whether it swept.
scanIntervalFor(len) ==
  IF len > 50 THEN 8000
  ELSE IF len > 20 THEN 5000
  ELSE IF len > 10 THEN 3000
  ELSE 2000

LogScan(s, len) ==
  IF s.logLen > 0
  THEN [s EXCEPT !.scanned = <<[queued |-> len,
                                interval |-> scanIntervalFor(len),
                                swept |-> len < 50]>>]
  ELSE s

adaptiveScan(s) ==
  IF Inactive(s) THEN s
  ELSE LET len == Len(s.translationQueue)
           s1 == LogScan(s, len)
       IN IF len < 50 THEN scanViewportAndQueue(s1) ELSE s1


\* ------------------------------------------------------------ batch mode
\* The batch-mode content script (content/content.js), which runs in place
\* of the streaming one.  Its state is the record batch: the fields of its
\* TranslationState, the tree (wrapped), the callbacks the browser holds for
\* it (idleCallbacks, scheduled: the batches of immediateTranslate waiting
\* for their setTimeout; inflight: the batches whose translate message is
\* sent), and the elements that were in the viewport at the last start.
\* stopped[i] tells that batch i of inflight was in flight when
\* stopTranslation ran, and staleApplied that a translation of such a batch
\* was put into the tree.
IMMEDIATE_BATCH_SIZE == 15

BatchInitial ==
  [isActive |-> FALSE, shouldStop |-> FALSE, translatedCount |-> 0,
   completedElements |-> {}, processedTexts |-> {},
   observer |-> FALSE, observed |-> {},
   pendingElements |-> {}, batchQueue |-> <<>>, batchTimer |-> FALSE,
   idleCallbacks |-> 0, scheduled |-> <<>>, inflight |-> <<>>,
   wrapped |-> {}, viewAtStart |-> {},
   stopped |-> <<>>, staleApplied |-> FALSE]

\* TranslationState.reset of content.js
BatchReset(b) ==
  [b EXCEPT !.isActive = FALSE, !.shouldStop = FALSE, !.translatedCount = 0,
            !.pendingElements = {}, !.batchQueue = <<>>,
            !.processedTexts = {}, !.batchTimer = FALSE]

\* The viewport test of collectViewportBlocks of content.js.
BatchInViewport(n, y) ==
  ~(NodeTop(n) + NodeHeight < y \/ NodeTop(n) > y + ViewportHeight)

\* collectViewportBlocks of content.js: the blocks and the texts it adds to
\* state.processedTexts.
RECURSIVE BatchCollectFrom(_, _, _, _, _, _)
BatchCollectFrom(b, pg, y, n, texts, blocks) ==
  IF \A m \in pg : m < n THEN [texts |-> texts, blocks |-> blocks]
  ELSE IF /\ n \in pg
          /\ Len(blocks) < IMMEDIATE_BATCH_SIZE * 2
          /\ BatchInViewport(n, y)
          /\ n \notin b.wrapped
          /\ NodeTextLength(n) >= MIN_TEXT_LENGTH
          /\ NodeText(n) \notin texts
       THEN BatchCollectFrom(b, pg, y, n + 1, texts \cup {NodeText(n)},
                             Append(blocks, Block(n)))
       ELSE BatchCollectFrom(b, pg, y, n + 1, texts, blocks)

BatchCollectViewportBlocks(b, pg, y) ==
  LET r == BatchCollectFrom(b, pg, y, 1, b.processedTexts, <<>>)
  IN [texts |-> r.texts, blocks |-> SortByTop(r.blocks)]

\* immediateTranslate: one setTimeout for each slice of IMMEDIATE_BATCH_SIZE
\* blocks.
RECURSIVE BatchSlices(_)
BatchSlices(blocks) ==
  IF blocks = <<>> THEN <<>>
  ELSE IF Len(blocks) <= IMMEDIATE_BATCH_SIZE THEN <<blocks>>
  ELSE <<SubSeq(blocks, 1, IMMEDIATE_BATCH_SIZE)>>
         \o BatchSlices(SubSeq(blocks, IMMEDIATE_BATCH_SIZE + 1, Len(blocks)))

\* startTranslation of content.js
BatchStartTranslation(b, pg, y) ==
  IF b.isActive THEN b
  ELSE LET b1 == [BatchReset(b) EXCEPT !.isActive = TRUE]
           r == BatchCollectViewportBlocks(b1, pg, y)
       IN [b1 EXCEPT !.processedTexts = r.texts,
                     !.scheduled = @ \o BatchSlices(r.blocks),
                     !.idleCallbacks = @ + 1,
                     !.viewAtStart = {n \in pg : BatchInViewport(n, y)}]

\* stopTranslation of content.js
BatchStopTranslation(b) ==
  BatchReset([b EXCEPT !.shouldStop = TRUE, !.isActive = FALSE,
                       !.observer = FALSE, !.observed = {},
                       !.stopped = [i \in 1..Len(b.inflight) |-> TRUE]])

\* collectTextBlocks of content.js, which works on state.processedTexts
\* itself: the blocks it returns and the texts it leaves in the set.
RECURSIVE BatchCollectTextNodes(_, _, _, _, _)
BatchCollectTextNodes(b, pg, n, texts, blocks) ==
  IF \A m \in pg : m < n THEN [texts |-> texts, blocks |-> blocks]
  ELSE IF n \in pg /\ n \notin b.wrapped /\ NodeTextLength(n) >= MIN_TEXT_LENGTH
          /\ NodeText(n) \notin texts
       THEN BatchCollectTextNodes(b, pg, n + 1, texts \cup {NodeText(n)},
                                  Append(blocks, Block(n)))
       ELSE BatchCollectTextNodes(b, pg, n + 1, texts, blocks)

\* queueForTranslation
queueForTranslation(b, n) ==
  IF NodeText(n) \in b.processedTexts THEN b
  ELSE [b EXCEPT !.processedTexts = @ \cup {NodeText(n)},
                 !.batchQueue = Append(@, n), !.batchTimer = TRUE]

\* The region of the observer: ROOT_MARGIN '50% 0px 100% 0px' around the
\* viewport.
BatchInRootMargin(n, y) ==
  ~(2 * (NodeTop(n) + NodeHeight) < 2 * y - ViewportHeight
    \/ NodeTop(n) > y + 2 * ViewportHeight)

\* The callback of the IntersectionObserver of createObserver, for the
\* observed elements that intersect the region at scroll position y.
RECURSIVE BatchObserverEntries(_, _)
BatchObserverEntries(b, entries) ==
  IF entries = {} THEN b
  ELSE LET n == CHOOSE m \in entries : \A k \in entries : m <= k
           b1 == IF n \notin b.completedElements /\ n \notin b.pendingElements
                 THEN queueForTranslation(
                        [b EXCEPT !.pendingElements = @ \cup {n}], n)
                 ELSE b
       IN BatchObserverEntries(b1, entries \ {n})

BatchObserverCallback(b, y) ==
  IF ~b.observer \/ ~b.isActive \/ b.shouldStop THEN b
  ELSE BatchObserverEntries(b, {n \in b.observed : BatchInRootMargin(n, y)})

\* The requestIdleCallback of startTranslation of content.js: the filter
\* reads the set collectTextBlocks has just extended; the blocks that pass
\* it are observed, and the observer reports those in its region.
BatchIdleScan(b, pg, y) ==
  LET b0 == [b EXCEPT !.idleCallbacks = @ - 1]
  IN IF ~b0.isActive \/ b0.shouldStop THEN b0
     ELSE LET r == BatchCollectTextNodes(b0, pg, 1, b0.processedTexts, <<>>)
              b1 == [b0 EXCEPT !.processedTexts = r.texts]
              remainingBlocks ==
                {r.blocks[i].element : i \in
                   {j \in 1..Len(r.blocks) : r.blocks[j].text \notin b1.processedTexts}}
          IN IF remainingBlocks # {}
             THEN BatchObserverCallback(
                    [b1 EXCEPT !.observer = TRUE, !.observed = remainingBlocks], y)
             ELSE b1

\* translateBatch from the end of its await, for the batch at position i
\* of inflight.
RECURSIVE BatchApply(_, _)
BatchApply(b, blocks) ==
  IF blocks = <<>> \/ b.shouldStop THEN b
  ELSE LET n == Head(blocks).element
       IN BatchApply([b EXCEPT !.wrapped = @ \cup {n},
                               !.translatedCount = @ + 1,
                               !.completedElements = @ \cup {n},
                               !.observed = @ \ {n}],
                     Tail(blocks))

BatchWithout(seq, i) == SubSeq(seq, 1, i - 1) \o SubSeq(seq, i + 1, Len(seq))

translateBatchResume(b, i, outcome) ==
  LET b1 == [b EXCEPT !.inflight = BatchWithout(@, i),
                      !.stopped = BatchWithout(@, i)]
      b2 == IF outcome = "ok" THEN BatchApply(b1, b.inflight[i]) ELSE b1
  IN [b2 EXCEPT !.staleApplied = @ \/ (b.stopped[i] /\ b2.wrapped # b.wrapped)]

\* ------------------------------------------------------------ batch request
\* One 'translate' message of translateBatch on its way through the service
\* worker and back.  A text is a sequence of tokens: "a" is a word,
\* " " is white space and "S" is the five characters [SEP].  In the prompt and
\* in the answer every token carries the number of the text it comes from
\* (src; 0 for the separators that buildUserPrompt puts in), which the
\* program does not see.
MaxSepLen == 3
MaxSepTexts == 2
SepChars == {"a", " ", "S"}
\* node.textContent.trim(): a block's text has no white space at its ends.
SepTexts ==
  {x \in UNION {[1..k -> SepChars] : k \in 1..MaxSepLen} :
     x[1] # " " /\ x[Len(x)] # " "}
SepBatches == UNION {[1..k -> SepTexts] : k \in 1..MaxSepTexts}

SepIdle ==
  [phase |-> "idle", texts |-> <<>>, prompt |-> <<>>, content |-> <<>>,
   translations |-> <<>>, applied |-> <<>>]

Tagged(text, i) == [j \in 1..Len(text) |-> [ch |-> text[j], src |-> i]]
Untagged(x) == [j \in 1..Len(x) |-> x[j].ch]

\* texts.join(' [SEP] ')
RECURSIVE JoinFrom(_, _)
JoinFrom(texts, i) ==
  IF i > Len(texts) THEN <<>>
  ELSE IF i = Len(texts) THEN Tagged(texts[i], i)
  ELSE Tagged(texts[i], i) \o Tagged(<<" ", "S", " ">>, 0) \o JoinFrom(texts, i + 1)

buildUserPrompt(texts) == JoinFrom(texts, 1)

\* The API as the system prompt asks it to be: every word is translated and
\* the separators are put out where they stand in the input.
ApiTranslates(prompt) ==
  [j \in 1..Len(prompt) |->
     [prompt[j] EXCEPT !.ch = IF @ = "a" THEN "x" ELSE @]]

\* p.trim() on the tokens of a part.
TrimTagged(x) ==
  LET solid == {i \in 1..Len(x) : x[i].ch # " "}
  IN IF solid = {} THEN <<>>
     ELSE LET lo == CHOOSE i \in solid : \A j \in solid : i <= j
              hi == CHOOSE i \in solid : \A j \in solid : j <= i
          IN SubSeq(x, lo, hi)

\* content.split(/\s*\[SEP\]\s*/): the parts between the occurrences of
\* [SEP]; the white space the pattern takes with it is what trim() takes
\* from the parts anyway.
SplitSep(content) ==
  LET cuts == {i \in 1..Len(content) : content[i].ch = "S"}
      Cut(k) == IF k = 0 THEN 0
                ELSE IF k > Cardinality(cuts) THEN Len(content) + 1
                ELSE CHOOSE i \in cuts : Cardinality({j \in cuts : j < i}) = k - 1
  IN [k \in 1..(Cardinality(cuts) + 1) |->
        SubSeq(content, Cut(k - 1) + 1, Cut(k) - 1)]

\* parts.map(p => p.trim()).filter(p => p.length > 0)
parseTranslations(content) ==
  LET parts == SplitSep(content)
      trimmed == [k \in 1..Len(parts) |-> TrimTagged(parts[k])]
  IN SelectSeq(trimmed, LAMBDA x : x # <<>>)

\* The for loop of translateBatch: applied[i] is the translation that
\* applyTranslation puts at block i, or the empty sequence.
translateBatchApplies(texts, translations) ==
  IF translations = <<>> THEN [i \in 1..Len(texts) |-> <<>>]
  ELSE [i \in 1..Len(texts) |->
          IF i > Len(translations) THEN <<>>
          ELSE IF AnswerOutcome(texts[i], Untagged(translations[i])) = "ok"
               THEN translations[i] ELSE <<>>]

\* ------------------------------------------------------------ rate limiter
\* const rateLimiter = new RateLimiter(3, 300), and the calls of
\* handleTranslate and handleTestApi that use it.  waiting counts, by kind,
\* the calls whose tryAcquire waits for its setTimeout; holders are the calls
\* between acquire and release, each with the attempt its withRetry is at;
\* intervalPassed tells that minInterval has gone by since lastRequestTime.
LimiterMaxConcurrent == 3
MaxRequests == 4
RequestKinds == {"translate", "testApi"}

LimiterInitial ==
  [activeRequests |-> 0, intervalPassed |-> TRUE,
   waiting |-> [k \in RequestKinds |-> 0], holders |-> <<>>]

\* Variant of release that does not touch the counter.
releaseForgets(l) == l

\* release()
release(l) ==
  [l EXCEPT !.activeRequests = IF @ - 1 > 0 THEN @ - 1 ELSE 0]

\* tryAcquire of acquire(), for a call of the given kind that is not
\* waiting: it takes a slot, or it sets its timer.
tryAcquire(l, kind) ==
  IF l.activeRequests < LimiterMaxConcurrent /\ l.intervalPassed
  THEN [l EXCEPT !.activeRequests = @ + 1, !.intervalPassed = FALSE,
                 !.holders = Append(@, [kind |-> kind, attempt |-> 0])]
  ELSE [l EXCEPT !.waiting[kind] = @ + 1]

LimiterLoad(l) ==
  Len(l.holders) + l.waiting["translate"] + l.waiting["testApi"]

\* ------------------------------------------------------------ mutation watcher
\* Variant of hasNewContent that looks at the class of the added node only.
hasNewContentOwnClass(s) ==
  \E r \in s.records : r.class # "oit-wrapper"

\* The callback of startMutationObserver: is there, among the added
\* elements, one that is no wrapper and stands in no wrapper.  The
\* container of an appended translation has the class oit-wrapper by then.
hasNewContent(s) ==
  \E r \in s.records :
    /\ r.class # "oit-wrapper"
    /\ ~(r.parent \in s.appendMode /\ r.parent \in s.wrapped)

\* The records of a callback are delivered when it has ended, unless the
\* observer is disconnected.
mutationCallback(s) ==
  LET s1 == [s EXCEPT !.records = {}]
  IN IF s.records = {} \/ ~s.mutationObserver THEN s1
     ELSE IF Inactive(s) THEN s1
     ELSE IF ~hasNewContent(s) THEN s1
     ELSE [s1 EXCEPT !.mutationTimer = TRUE]

\* ------------------------------------------------------------ actions
CommitState(s) ==
  /\ Outstanding(s.calls) <= s.maxOut
  /\ isActive' = s.isActive /\ shouldStop' = s.shouldStop
  /\ translatedCount' = s.translatedCount
  /\ completedElements' = s.completedElements
  /\ processedTexts' = s.processedTexts
  /\ translationQueue' = s.translationQueue
  /\ activeTranslations' = s.activeTranslations
  /\ isProcessing' = s.isProcessing
  /\ pendingElements' = s.pendingElements
  /\ translatingElements' = s.translatingElements
  /\ scrollTimer' = s.scrollTimer /\ mutationTimer' = s.mutationTimer
  /\ periodicScanTimer' = s.periodicScanTimer
  /\ mutationObserver' = s.mutationObserver /\ scrollHandler' = s.scrollHandler
  /\ observer' = s.observer
  /\ translatedCheckCache' = s.translatedCheckCache
  /\ contextWarningShown' = s.contextWarningShown
  /\ oitPending' = s.oitPending /\ oitTranslating' = s.oitTranslating
  /\ wrapped' = s.wrapped /\ detached' = s.detached
  /\ contextValid' = s.contextValid /\ scrollY' = s.scrollY
  /\ calls' = s.calls /\ sleepers' = s.sleepers
  /\ looseChains' = s.looseChains /\ idleCallbacks' = s.idleCallbacks
  /\ page' = s.page /\ positions' = s.positions /\ maxOut' = s.maxOut
  /\ maxLeft' = s.maxLeft /\ stopsLeft' = s.stopsLeft /\ backend' = s.backend
  /\ applyCalls' = s.applyCalls
  /\ quietBroken' = s.quietBroken /\ doneBroken' = s.doneBroken
  /\ skipped' = s.skipped /\ skipRetried' = s.skipRetried
  /\ retry' = s.retry /\ emitted' = s.emitted /\ shown' = s.shown
  /\ logLen' = s.logLen /\ enqueued' = s.enqueued /\ issued' = s.issued
  /\ batch' = s.batch
  /\ appendMode' = s.appendMode /\ translationEls' = s.translationEls
  /\ issuedAt' = s.issuedAt /\ watchersAt' = s.watchersAt
  /\ lastScrollY' = s.lastScrollY /\ scrollTimers' = s.scrollTimers
  /\ scanned' = s.scanned /\ sep' = s.sep /\ limiter' = s.limiter

\* The end of a callback: the MutationObserver is told about the nodes
\* added, and the state is what its callback leaves.
Commit(s) == CommitState(mutationCallback(s))

\* 'translatePage' message, or a click on the floating button while idle.
StartTranslation ==
  /\ contextValid
  /\ ~isActive
  /\ idleCallbacks < maxLeft /\ looseChains < maxLeft
  /\ Commit(startTranslation(Cur))

\* 'stopTranslate' message, or a click on the floating button while active.
StopTranslation ==
  /\ contextValid
  /\ stopsLeft # 0
  /\ Commit(stopTranslation([Cur EXCEPT !.stopsLeft = IF @ > 0 THEN @ - 1 ELSE @]))

\* 'removeTranslations' message.
RemoveAllTranslations ==
  /\ contextValid
  /\ stopsLeft # 0
  /\ Commit(removeAllTranslations([Cur EXCEPT !.stopsLeft = IF @ > 0 THEN @ - 1 ELSE @]))

\* A scroll event: the handler, when it is attached, arms the scroll timer.
ScrollEvent ==
  \E y \in positions \ {scrollY} :
    LET s == [Cur EXCEPT !.scrollY = y]
    IN Commit(IF s.scrollHandler THEN scrollHandlerRun(s) ELSE s)

\* A timeout of the scroll handler fires.
ScrollTimerFires ==
  \E i \in 1..Len(scrollTimers) :
    Commit(scanViewportAndQueue([Cur EXCEPT
      !.scrollTimers = SubSeq(@, 1, i - 1) \o SubSeq(@, i + 1, Len(@)),
      !.scrollTimer = IF i = Len(scrollTimers) THEN FALSE ELSE @]))

\* The page adds an element: the MutationObserver callback arms its timer.
MutationEvent ==
  /\ mutationObserver
  /\ ~Inactive(Cur)
  /\ ~mutationTimer
  /\ Commit([Cur EXCEPT !.mutationTimer = TRUE])

MutationTimerFires ==
  /\ mutationTimer
  /\ Commit(scanViewportAndQueue([Cur EXCEPT !.mutationTimer = FALSE]))

\* The first timer of a periodic chain, the one state.periodicScanTimer names
\* (periodicScanTimer is TRUE while the timer it names is pending: clearing
\* a timer that has fired does nothing).
PeriodicFirstFires ==
  /\ periodicScanTimer
  /\ LET s == [Cur EXCEPT !.periodicScanTimer = FALSE]
     IN Commit(IF Inactive(s) THEN s
               ELSE [adaptiveScan(s) EXCEPT !.looseChains = @ + 1])

\* A later timer of a periodic chain.
PeriodicLaterFires ==
  /\ looseChains > 0
  /\ Commit(IF Inactive(Cur) THEN [Cur EXCEPT !.looseChains = @ - 1]
            ELSE adaptiveScan(Cur))

\* The requestIdleCallback of startTranslation.
IdleCallback ==
  /\ idleCallbacks > 0
  /\ Commit(scanAndObserveAll([Cur EXCEPT !.idleCallbacks = @ - 1]))

\* A processQueue loop returns from sleep(50).
SleepReturns ==
  /\ sleepers > 0
  /\ Commit(processQueueWake(Cur))

\* A translate call settles: a response, or a rejection.
CallSettles ==
  \E k \in DOMAIN calls, outcome \in backend :
    /\ calls[k] > 0
    /\ (outcome = "ctx") => ~contextValid
    /\ (outcome \in {"ok", "same", "error"}) => contextValid
    /\ Commit(translateSingleResume(Cur, k[1], k[2], outcome))

\* A translate call is answered with a translation.
CallSettlesWith ==
  \E k \in DOMAIN calls, translation \in Translations :
    /\ calls[k] > 0
    /\ contextValid
    /\ Commit(translateSingleAnswer(Cur, k[1], k[2], translation))

\* The same, for a backend that answers the calls one at a time in document
\* order of their elements.
CallSettlesInOrder ==
  \E k \in DOMAIN calls, outcome \in backend :
    /\ calls[k] > 0
    /\ \A k2 \in DOMAIN calls : calls[k2] > 0 => k[1] <= k2[1]
    /\ (outcome = "ctx") => ~contextValid
    /\ (outcome \in {"ok", "same", "error"}) => contextValid
    /\ Commit(translateSingleResume(Cur, k[1], k[2], outcome))

\* The service worker receives the 'translate' message of an outstanding
\* call and handleTranslate enters withRetry with its default arguments.
WorkerReceives ==
  \E n \in page :
    /\ retry.phase \in {"idle", "answered"}
    /\ calls[<<n, FALSE>>] + calls[<<n, TRUE>>] > 0
    /\ Commit([Cur EXCEPT !.retry =
         [withRetry(DefaultMaxRetries, DefaultBaseDelay) EXCEPT !.node = n]])

\* The API call made by fn resolves.
FnReturns ==
  /\ retry.phase = "calling"
  /\ Commit([Cur EXCEPT !.retry.phase = "returned"])

\* The API call made by fn rejects, with some message.
FnThrows ==
  \E msg \in Messages :
    /\ retry.phase = "calling"
    /\ Commit([Cur EXCEPT !.retry = withRetryCatch(retry, msg)])

RetrySleepEnds ==
  /\ retry.phase = "sleeping"
  /\ Commit([Cur EXCEPT !.retry = withRetryContinue(retry)])

\* The onMessage listener of the service worker answers: { translations }
\* when handleTranslate returned, { error: error.message } when it threw.
\* An empty message makes response.error falsy, and the response then has
\* no translations either.
\* Variant of ResponseOutcome that reports an error once any attempt failed.
ResponseOutcomeAnyError(r) ==
  IF r.errors = <<>> THEN "ok"
  ELSE IF r.errors[Len(r.errors)].empty THEN "same" ELSE "error"

ResponseOutcome(r) ==
  IF r.phase = "returned" THEN "ok"
  ELSE IF r.errors[Len(r.errors)].empty THEN "same" ELSE "error"

ResponseArrives ==
  \E stale \in BOOLEAN :
    /\ retry.phase \in {"returned", "thrown"}
    /\ calls[<<retry.node, stale>>] > 0
    /\ Commit(translateSingleResume([Cur EXCEPT !.retry.phase = "answered"],
                                    retry.node, stale, ResponseOutcome(retry)))

\* The extension is reloaded or updated: chrome.runtime.id is gone.
\* 'translatePage' message to the batch-mode script.
BatchStart ==
  /\ ~batch.isActive
  /\ Commit([Cur EXCEPT !.batch = BatchStartTranslation(batch, page, scrollY)])

\* 'stopTranslate' message to the batch-mode script.
BatchStop ==
  /\ stopsLeft > 0
  /\ Commit([Cur EXCEPT !.batch = BatchStopTranslation(batch),
                         !.stopsLeft = @ - 1])

\* The requestIdleCallback of the batch-mode startTranslation.
BatchIdleCallback ==
  /\ batch.idleCallbacks > 0
  /\ Commit([Cur EXCEPT !.batch = BatchIdleScan(batch, page, scrollY)])

\* A setTimeout of immediateTranslate fires: translateBatch sends the
\* translate message for its slice.
BatchTimeout ==
  \E i \in 1..Len(batch.scheduled) :
    Commit([Cur EXCEPT !.batch = [batch EXCEPT
              !.scheduled = BatchWithout(@, i),
              !.inflight = Append(@, batch.scheduled[i]),
              !.stopped = Append(@, FALSE)]])

\* The response to the translate message of a batch arrives.
BatchResponse ==
  \E i \in 1..Len(batch.inflight), outcome \in backend :
    Commit([Cur EXCEPT !.batch = translateBatchResume(batch, i, outcome)])

\* The user scrolls the page; the observer, when there is one, reports the
\* elements that are in its region now.
BatchScroll ==
  \E y \in positions \ {scrollY} :
    Commit([Cur EXCEPT !.scrollY = y, !.batch = BatchObserverCallback(batch, y)])

\* translateBatch sends the texts of a batch; handleTranslate builds the
\* user prompt.
SepRequest ==
  /\ sep.phase = "idle"
  /\ \E texts \in SepBatches :
       Commit([Cur EXCEPT !.sep = [SepIdle EXCEPT !.phase = "sent", !.texts = texts,
                                             !.prompt = buildUserPrompt(texts)]])

\* The API answers.
SepApiAnswers ==
  /\ sep.phase = "sent"
  /\ Commit([Cur EXCEPT !.sep.phase = "answered",
                        !.sep.content = ApiTranslates(sep.prompt)])

\* callOpenAICompatibleApi / callAnthropicApi return parseTranslations(content).
SepParse ==
  /\ sep.phase = "answered"
  /\ Commit([Cur EXCEPT !.sep.phase = "parsed",
                        !.sep.translations = parseTranslations(sep.content)])

\* translateBatch resumes with the response.
SepApply ==
  /\ sep.phase = "parsed"
  /\ Commit([Cur EXCEPT !.sep.phase = "applied",
                        !.sep.applied = translateBatchApplies(sep.texts, sep.translations)])

\* A 'translate' or 'testApi' message reaches the service worker, and
\* handleTranslate or handleTestApi awaits rateLimiter.acquire().
LimiterRequest ==
  /\ LimiterLoad(limiter) < MaxRequests
  /\ \E kind \in RequestKinds :
       Commit([Cur EXCEPT !.limiter = tryAcquire(@, kind)])

\* The timer of a waiting tryAcquire fires.
LimiterTimerFires ==
  \E kind \in RequestKinds :
    /\ limiter.waiting[kind] > 0
    /\ Commit([Cur EXCEPT !.limiter =
                  tryAcquire([@ EXCEPT !.waiting[kind] = @ - 1], kind)])

\* minInterval has gone by since the last acquisition.
LimiterIntervalPasses ==
  /\ ~limiter.intervalPassed
  /\ Commit([Cur EXCEPT !.limiter.intervalPassed = TRUE])

\* withRetry of a handleTranslate call takes a rate-limit error that is not
\* its last and goes on to the next attempt.
LimiterRetries ==
  \E i \in 1..Len(limiter.holders) :
    /\ limiter.holders[i].kind = "translate"
    /\ limiter.holders[i].attempt < DefaultMaxRetries - 1
    /\ Commit([Cur EXCEPT !.limiter.holders[i].attempt = @ + 1])

\* The request of a holder settles, with a result or with an error, and its
\* finally block releases the slot.
LimiterSettles ==
  \E i \in 1..Len(limiter.holders) :
    Commit([Cur EXCEPT !.limiter =
              release([@ EXCEPT !.holders = BatchWithout(@, i)])])

ContextInvalidated ==
  /\ contextValid
  /\ Commit([Cur EXCEPT !.contextValid = FALSE])

\* A click on the floating button once the context is invalid (safeHandler).
FabClickInvalid ==
  /\ ~contextValid
  /\ Commit(cleanupInvalidContext(Cur))

Next ==
  \/ StartTranslation
  \/ StopTranslation
  \/ RemoveAllTranslations
  \/ ScrollEvent
  \/ ScrollTimerFires
  \/ MutationEvent
  \/ MutationTimerFires
  \/ PeriodicFirstFires
  \/ PeriodicLaterFires
  \/ IdleCallback
  \/ CallSettles
  \/ ContextInvalidated
  \/ FabClickInvalid

\* The state after the content script is loaded, in a given scenario.
InitOn(sc) ==
  /\ isActive = FALSE /\ shouldStop = FALSE /\ translatedCount = 0
  /\ completedElements = {} /\ processedTexts = {}
  /\ translationQueue = <<>> /\ activeTranslations = 0 /\ isProcessing = FALSE
  /\ pendingElements = {} /\ translatingElements = {}
  /\ scrollTimer = FALSE /\ mutationTimer = FALSE /\ periodicScanTimer = FALSE
  /\ mutationObserver = FALSE /\ scrollHandler = FALSE /\ observer = {}
  /\ translatedCheckCache = [n \in sc.page |-> "miss"]
  /\ contextWarningShown = FALSE
  /\ oitPending = {} /\ oitTranslating = {} /\ wrapped = {} /\ detached = {}
  /\ contextValid = TRUE /\ scrollY \in sc.positions
  /\ calls = [k \in sc.page \X BOOLEAN |-> 0]
  /\ sleepers = 0 /\ looseChains = 0 /\ idleCallbacks = 0
  /\ page = sc.page /\ positions = sc.positions /\ maxOut = sc.maxOut
  /\ maxLeft = sc.maxLeft /\ stopsLeft = sc.stopsLeft /\ backend = sc.backend
  /\ applyCalls = [n \in sc.page |-> 0]
  /\ quietBroken = FALSE /\ doneBroken = FALSE
  /\ skipped = {} /\ skipRetried = FALSE
  /\ retry = RetryIdle /\ emitted = {} /\ shown = [n \in sc.page |-> NoTranslation]
  /\ logLen = sc.logLen /\ enqueued = <<>> /\ issued = <<>>
  /\ batch = BatchInitial
  /\ appendMode = sc.appendMode /\ translationEls = [n \in sc.page |-> 0]
  /\ issuedAt = <<>> /\ watchersAt = <<>>
  /\ lastScrollY = 0 /\ scrollTimers = <<>>
  /\ scanned = <<>> /\ sep = SepIdle /\ limiter = LimiterInitial

\* Two elements with different texts, the first found by the primary pass
\* and the second, which stands above it, by the secondary pass.
MaxOutstanding == 2
MaxLeftOver == 1
Init ==
  InitOn([page |-> {1, 3}, positions |-> {0, 300}, maxOut |-> MaxOutstanding,
          maxLeft |-> MaxLeftOver, stopsLeft |-> -1, backend |-> Outcomes,
          logLen |-> 0,
          appendMode |-> {}])

Spec == Init /\ [][Next]_vars


\* One element that every sweep finds again while its call is outstanding,
\* and a network that holds more calls than MAX_CONCURRENT: the dispatch
\* loop waits for a slot.  The periodic rescan and the idle-time full scan
\* are the only watchers.
SlotsOutstanding == 7
SlotsStops == 1
InitSlots ==
  InitOn([page |-> {1}, positions |-> {0}, maxOut |-> SlotsOutstanding,
          maxLeft |-> MaxLeftOver, stopsLeft |-> SlotsStops,
          backend |-> {"ok", "error"},
          logLen |-> 0,
          appendMode |-> {}])

NextSlots ==
  \/ StartTranslation
  \/ StopTranslation
  \/ PeriodicFirstFires
  \/ PeriodicLaterFires
  \/ IdleCallback
  \/ SleepReturns
  \/ CallSettles

SpecSlots == InitSlots /\ [][NextSlots]_vars

\* A first screen with more elements than the queue holds, all in one row:
\* the first sweep fills the queue and evicts.  The backend answers every
\* call, in the order of issue.
QueueLast == 111
QueuePage == 4..QueueLast
InitQueue ==
  InitOn([page |-> QueuePage, positions |-> {0}, maxOut |-> MAX_CONCURRENT,
          maxLeft |-> MaxLeftOver, stopsLeft |-> 0, backend |-> {"ok"},
          logLen |-> 0,
          appendMode |-> {}])

NextQueue ==
  \/ StartTranslation
  \/ SleepReturns
  \/ CallSettlesInOrder

SpecQueue == InitQueue /\ [][NextQueue]_vars

\* A page whose first sweep leaves more than 50 blocks in the queue, with the
\* first periodic run coming at any moment while the queue drains.
RescanLog == 1
RescanLast == 60
RescanPage == 4..RescanLast
InitRescan ==
  InitOn([page |-> RescanPage, positions |-> {0}, maxOut |-> MAX_CONCURRENT,
          maxLeft |-> MaxLeftOver, stopsLeft |-> 0, backend |-> {"ok"},
          logLen |-> RescanLog,
          appendMode |-> {}])

NextRescan ==
  \/ StartTranslation
  \/ PeriodicFirstFires
  \/ SleepReturns
  \/ CallSettlesInOrder

SpecRescan == InitRescan /\ [][NextRescan]_vars

\* The page whose first sweep evicts, with the first periodic run coming at
\* any moment while the queue drains.
EvictLog == 1
InitEvict ==
  InitOn([page |-> QueuePage, positions |-> {0}, maxOut |-> MAX_CONCURRENT,
          maxLeft |-> MaxLeftOver, stopsLeft |-> 0, backend |-> {"ok"},
          logLen |-> EvictLog,
          appendMode |-> {}])

SpecEvict == InitEvict /\ [][NextRescan]_vars

\* One element, one translate call at a time, and the service worker that
\* answers it: the outcome of the call is what withRetry makes of the API's
\* answers.  The periodic rescan dispatches the element again after an error.
InitRetry ==
  InitOn([page |-> {1}, positions |-> {0}, maxOut |-> 1,
          maxLeft |-> MaxLeftOver, stopsLeft |-> 0, backend |-> {},
          logLen |-> 0,
          appendMode |-> {}])

NextRetry ==
  \/ StartTranslation
  \/ PeriodicFirstFires
  \/ PeriodicLaterFires
  \/ WorkerReceives
  \/ FnReturns
  \/ FnThrows
  \/ RetrySleepEnds
  \/ ResponseArrives

SpecRetry == InitRetry /\ [][NextRetry]_vars

\* Two elements, one sweep, and a backend that answers each call with an
\* arbitrary short text.
InitSame ==
  InitOn([page |-> {1, 3}, positions |-> {0}, maxOut |-> MaxOutstanding,
          maxLeft |-> MaxLeftOver, stopsLeft |-> 0, backend |-> {},
          logLen |-> 0,
          appendMode |-> {}])

NextSame ==
  \/ StartTranslation
  \/ CallSettlesWith

SpecSame == InitSame /\ [][NextSame]_vars

\* Seven elements on the first screen at three heights, more than
\* MAX_CONCURRENT: the dispatch loop waits for slots, and the first periodic
\* rescan queues again the elements whose calls failed.
OrderLog == 12
OrderLast == 8
OrderPage == {1, 3} \cup (4..OrderLast)
InitOrder ==
  InitOn([page |-> OrderPage, positions |-> {0}, maxOut |-> MAX_CONCURRENT,
          maxLeft |-> MaxLeftOver, stopsLeft |-> 0, backend |-> {"ok", "error"},
          logLen |-> OrderLog,
          appendMode |-> {}])

NextOrder ==
  \/ StartTranslation
  \/ PeriodicFirstFires
  \/ SleepReturns
  \/ CallSettlesInOrder

SpecOrder == InitOrder /\ [][NextOrder]_vars

\* The same page in a session that is never stopped: the timer of sleep(50)
\* fires and every translate call settles.
InitDrain ==
  InitOn([page |-> OrderPage, positions |-> {0}, maxOut |-> MAX_CONCURRENT,
          maxLeft |-> MaxLeftOver, stopsLeft |-> 0, backend |-> {"ok", "error"},
          logLen |-> 0,
          appendMode |-> {}])

\* Weak fairness of SleepReturns and of CallSettlesInOrder, with the
\* enabling condition of each written out: a suspended loop that finds a
\* free slot goes on, and an outstanding call settles.
SleepReturnsEnabled == sleepers > 0 /\ activeTranslations < MAX_CONCURRENT
CallSettlesEnabled == Outstanding(calls) > 0 /\ contextValid

SpecDrain ==
  /\ InitDrain /\ [][NextOrder]_vars
  /\ ([]<>(~SleepReturnsEnabled) \/ []<><<SleepReturns>>_vars)
  /\ ([]<>(~CallSettlesEnabled) \/ []<><<CallSettlesInOrder>>_vars)

\* Three elements on the first screen, from the top: element 1, element 4,
\* and element 10 with the text of element 1.  The backend translates every
\* text.
HelloLog == 6
InitHello ==
  InitOn([page |-> {1, 4, 10}, positions |-> {0}, maxOut |-> MAX_CONCURRENT,
          maxLeft |-> MaxLeftOver, stopsLeft |-> 0, backend |-> {"ok"},
          logLen |-> HelloLog,
          appendMode |-> {}])

NextHello ==
  \/ StartTranslation
  \/ IdleCallback
  \/ PeriodicFirstFires
  \/ PeriodicLaterFires
  \/ CallSettles

SpecHello == InitHello /\ [][NextHello]_vars

\* The batch-mode script on a page with two elements, at the top or scrolled
\* two screens down, where neither is in the viewport.  The browser runs
\* every timer and callback it holds and delivers every response.
BatchStops == 2
BatchPage == {1, 3}
InitBatch ==
  InitOn([page |-> BatchPage, positions |-> {0, 300}, maxOut |-> 0,
          maxLeft |-> MaxLeftOver, stopsLeft |-> BatchStops,
          backend |-> {"ok", "error"}, logLen |-> 0,
          appendMode |-> {}])

NextBatch ==
  \/ BatchStart
  \/ BatchStop
  \/ BatchIdleCallback
  \/ BatchTimeout
  \/ BatchResponse
  \/ BatchScroll

\* More elements than slots, one stop and a restart: the calls of the
\* stopped session may still be out when the new session issues its own.
LoopsOutstanding == 12
LoopsStops == 1
LoopsLeftOver == 2
InitLoops ==
  InitOn([page |-> OrderPage, positions |-> {0}, maxOut |-> LoopsOutstanding,
          maxLeft |-> LoopsLeftOver, stopsLeft |-> LoopsStops, backend |-> {"ok"},
          logLen |-> 0,
          appendMode |-> {}])

NextLoops ==
  \/ StartTranslation
  \/ StopTranslation
  \/ SleepReturns
  \/ CallSettlesInOrder

SpecLoops == InitLoops /\ [][NextLoops]_vars

\* Two elements, one stop and a restart, with the periodic rescan: the
\* restart may come while a timer of the stopped session's chain is pending.
ChainsOutstanding == 4
ChainsStops == 1
ChainsLeftOver == 2
InitChains ==
  InitOn([page |-> {1, 3}, positions |-> {0}, maxOut |-> ChainsOutstanding,
          maxLeft |-> ChainsLeftOver, stopsLeft |-> ChainsStops,
          backend |-> {"ok", "error"},
          logLen |-> 0,
          appendMode |-> {}])

NextChains ==
  \/ StartTranslation
  \/ StopTranslation
  \/ PeriodicFirstFires
  \/ PeriodicLaterFires
  \/ CallSettles

SpecChains == InitChains /\ [][NextChains]_vars

\* The service worker with up to MaxRequests messages at a time.
InitLimiter ==
  InitOn([page |-> {1}, positions |-> {0}, maxOut |-> 0,
          maxLeft |-> MaxLeftOver, stopsLeft |-> 0, backend |-> {},
          logLen |-> 0,
          appendMode |-> {}])

NextLimiter ==
  \/ LimiterRequest
  \/ LimiterTimerFires
  \/ LimiterIntervalPasses
  \/ LimiterRetries
  \/ LimiterSettles

SpecLimiter == InitLimiter /\ [][NextLimiter]_vars

\* One batch request of one or two texts.
InitSep ==
  InitOn([page |-> {1}, positions |-> {0}, maxOut |-> 0,
          maxLeft |-> MaxLeftOver, stopsLeft |-> 0, backend |-> {},
          logLen |-> 0,
          appendMode |-> {}])

NextSep ==
  \/ SepRequest
  \/ SepApiAnswers
  \/ SepParse
  \/ SepApply

SpecSep == InitSep /\ [][NextSep]_vars

SpecBatch ==
  /\ InitBatch /\ [][NextBatch]_vars
  /\ WF_vars(BatchIdleCallback) /\ WF_vars(BatchTimeout) /\ WF_vars(BatchResponse)

\* Two elements on the first screen, of which element 3 is a container whose
\* text is all in its children, so that its translation is appended.
AppendStops == 1
InitAppend ==
  InitOn([page |-> {1, 3}, positions |-> {0}, maxOut |-> MaxOutstanding,
          maxLeft |-> MaxLeftOver, stopsLeft |-> AppendStops,
          backend |-> {"ok", "same", "error"}, logLen |-> 0,
          appendMode |-> {3}])

NextAppend ==
  \/ StartTranslation
  \/ StopTranslation
  \/ RemoveAllTranslations
  \/ PeriodicFirstFires
  \/ PeriodicLaterFires
  \/ CallSettles

SpecAppend == InitAppend /\ [][NextAppend]_vars

\* A page that is scrolled among three positions, by steps of 100, 200 and
\* 300 px, with element 4 on the first screen and element 2 below it, which
\* a sweep finds only from the middle position.
ScrollStops == 1
InitScroll ==
  InitOn([page |-> {2, 4}, positions |-> {0, 100, 300}, maxOut |-> MaxOutstanding,
          maxLeft |-> MaxLeftOver, stopsLeft |-> ScrollStops,
          backend |-> {"ok", "error"}, logLen |-> 0,
          appendMode |-> {}])

NextScroll ==
  \/ StartTranslation
  \/ StopTranslation
  \/ ScrollEvent
  \/ ScrollTimerFires
  \/ CallSettles

SpecScroll == InitScroll /\ [][NextScroll]_vars

\* ------------------------------------------------------------ claims

\* C1: for any node, applyTranslation is invoked at most once during a
\* session, also when the node is enqueued again by a watcher while an
\* earlier translate call for it is outstanding.
C1_ApplyAtMostOnce == \A n \in page : applyCalls[n] <= 1

\* C2: the number of translate calls issued and not yet settled never
\* exceeds MAX_CONCURRENT.
C2_ConcurrencyBound == Outstanding(calls) <= MAX_CONCURRENT

\* C3: the result of a call that was in flight when stopTranslation() ran
\* is never applied to the tree and never counted in translatedCount.
C3_StoppedCallDiscarded ==
  [][\A n \in page :
       calls'[<<n, TRUE>>] < calls[<<n, TRUE>>] =>
         /\ translatedCount' <= translatedCount
         /\ wrapped' = wrapped
         /\ applyCalls' = applyCalls]_vars

\* C5: while a translate call for a node is outstanding, no block for that
\* node is in the queue.
C5_NotQueuedAndInFlight ==
  \A n \in page :
    ~(QueueHas(translationQueue, n) /\ calls[<<n, FALSE>>] + calls[<<n, TRUE>>] > 0)


\* C4: after stopTranslation() the queue is empty, and until the next
\* startTranslation() no watcher callback, timer or late completion of an
\* earlier call enqueues a block or issues a translate call: while there is
\* no session the queue is empty, no call issued since the stop is
\* outstanding, and nothing has ever been enqueued or issued in that state.
C4_QuietAfterStop ==
  /\ ~quietBroken
  /\ Idle(Cur) => /\ translationQueue = <<>>
                  /\ \A n \in page : calls[<<n, FALSE>>] = 0

\* A stopped session with a call of it still outstanding and an idle
\* callback and a periodic timer of it still pending.
C4_Witness ==
  /\ Idle(Cur)
  /\ \E n \in page : calls[<<n, TRUE>>] > 0
  /\ idleCallbacks > 0 /\ looseChains > 0

\* C6: once an element is in completedElements it stays there, over
\* stopTranslation() and startTranslation() too, and no block for it is
\* enqueued or dispatched again.
C6_DoneNeverAgain ==
  /\ []~doneBroken
  /\ [][completedElements \subseteq completedElements']_vars

\* A session started after a stop (a call of the stopped session is still
\* outstanding) whose sweeps meet a completed element without a wrapper
\* on the screen.
C6_Witness ==
  /\ isActive
  /\ \E m \in page : calls[<<m, TRUE>>] > 0
  /\ \E n \in completedElements \ wrapped : InRegion(Cur, n)

\* C7: removeAllTranslations() clears the dedup memory: the step that
\* takes the wrappers away leaves no element completed and no memoized
\* answer of isAlreadyTranslated.
C7_RestoreClearsDedup ==
  [][(wrapped # {} /\ wrapped' = {}) =>
       /\ completedElements' = {}
       /\ \A n \in page : translatedCheckCache'[n] = "miss"]_vars

\* C8: an element whose translate call came back with an error is not
\* enqueued or dispatched again in that session.
C8_SkippedNotRetried == ~skipRetried

\* C9: once the invalid extension context has been detected the session
\* is stopped: inactive, queue empty, watchers detached, markers cleared.
C9_StoppedOnInvalidContext ==
  contextWarningShown =>
    /\ ~isActive
    /\ translationQueue = <<>>
    /\ ~scrollHandler /\ ~mutationObserver
    /\ oitPending = {} /\ oitTranslating = {}

\* An element that was enqueued and has left the queue without being
\* dispatched: it keeps the pending marker addToQueue gave it.
Evicted(n) ==
  /\ n \in oitPending
  /\ ~QueueHas(translationQueue, n)
  /\ n \notin completedElements

\* C10: the queue never holds more than MAX_QUEUE_SIZE blocks, and the
\* entries removed to make room are the oldest ones: every evicted element
\* was enqueued before every element still in the queue (on this page the
\* elements are enqueued in ascending order).
C10_BoundedFifo ==
  /\ Len(translationQueue) <= MAX_QUEUE_SIZE
  /\ \A n \in page : Evicted(n) =>
       \A i \in 1..Len(translationQueue) : n < translationQueue[i].element

\* The first sweep has enqueued more blocks than the queue holds.
C10_Witness ==
  /\ \E n \in page : Evicted(n)
  /\ Len(translationQueue) > 0


C12_RetryThenDone ==
  (/\ retry.phase = "answered"
   /\ retry.invocations = 2
   /\ Len(retry.errors) = 1 /\ isRateLimitError(retry.errors[1]))
  => /\ retry.node \in completedElements
     /\ retry.node \in wrapped
     /\ retry.delays = <<2000>>

\* The answer of a request whose second attempt succeeded has arrived.
C12_Witness ==
  /\ retry.phase = "answered"
  /\ retry.invocations = 2 /\ Len(retry.errors) = 1
  /\ retry.node \in wrapped
  /\ translatedCount = 1


\* C13: when a translate call has failed with a backend error, an error
\* event has been emitted to the caller.
C13_ErrorEventEmitted == skipped # {} => "error" \in emitted


\* The words of a text in lower case: the text up to white space and case.
RECURSIVE WordsOf(_)
WordsOf(str) ==
  IF str = <<>> THEN <<>>
  ELSE IF Head(str) = " " THEN WordsOf(Tail(str))
  ELSE LET n == CHOOSE k \in 1..Len(str) :
                  /\ \A i \in 1..k : str[i] # " "
                  /\ (k = Len(str) \/ str[k + 1] = " ")
       IN <<ToLowerCase(SubSeq(str, 1, n))>> \o WordsOf(SubSeq(str, n + 1, Len(str)))

\* C14: a translation that is empty, equal to the source text, or equal to
\* it up to white space and case is never put into the tree, and
\* translatedCount counts only the translations that were put there.
C14_SameNotApplied ==
  /\ \A n \in page : n \in wrapped =>
       /\ shown[n] # <<>>
       /\ shown[n] # NodeChars(n)
       /\ WordsOf(shown[n]) # WordsOf(NodeChars(n))
  /\ \A n \in completedElements \ wrapped : n \notin oitPending \cup oitTranslating
  /\ translatedCount = Cardinality(wrapped)

\* The backend has answered the call for one element with a text that is no
\* translation of it and the call for the other with a translation.
C14_Witness ==
  /\ 3 \in completedElements \ wrapped
  /\ 1 \in wrapped
  /\ Outstanding(calls) = 0


\* C15: stopping twice in a row leaves the state that stopping once leaves:
\* the queue is empty, the watchers are detached, and the calls that were in
\* flight are accounted for as after the first stop.
C15_StopTwice ==
  LET once == stopTranslation(Cur)
      twice == stopTranslation(once)
  IN /\ twice = once
     /\ twice.translationQueue = <<>>
     /\ ~twice.scrollHandler /\ ~twice.mutationObserver /\ twice.observer = {}
     /\ ~twice.scrollTimer /\ ~twice.mutationTimer /\ ~twice.periodicScanTimer
     /\ Outstanding(twice.calls) = Outstanding(calls)

\* A session with calls in flight, entries queued, and its watchers attached.
C15_Witness ==
  /\ isActive
  /\ Outstanding(calls) > 0
  /\ Len(translationQueue) > 0
  /\ scrollHandler /\ mutationObserver


\* C16: stopTranslation in a state without a session changes no flag, not
\* translatedCount, not the in-flight counter, not the queue, no dedup set
\* and no node of the tree.
C16_StopWhileIdle ==
  Idle(Cur) =>
    LET t == stopTranslation(Cur)
    IN /\ t.isActive = isActive /\ t.shouldStop = shouldStop
       /\ t.isProcessing = isProcessing
       /\ t.translatedCount = translatedCount
       /\ t.activeTranslations = activeTranslations
       /\ t.translationQueue = translationQueue
       /\ t.completedElements = completedElements
       /\ t.processedTexts = processedTexts
       /\ t.wrapped = wrapped /\ t.shown = shown
       /\ t.oitPending = oitPending /\ t.oitTranslating = oitTranslating


\* Whether the sequence sub is seq with some entries left out.
RECURSIVE IsSubSeq(_, _)
IsSubSeq(sub, seq) ==
  IF sub = <<>> THEN TRUE
  ELSE IF seq = <<>> THEN FALSE
  ELSE IF Head(sub) = Head(seq) THEN IsSubSeq(Tail(sub), Tail(seq))
  ELSE IsSubSeq(sub, Tail(seq))

\* C17: the candidates of one sweep are taken into the queue from the top
\* of the page downward, and the translate calls are sent in the order in
\* which the elements were taken into the queue.
C17_SweepOrder ==
  /\ \A i \in 1..(Len(enqueued) - 1) :
       (enqueued[i] # SweepMark /\ enqueued[i + 1] # SweepMark)
         => NodeTop(enqueued[i]) <= NodeTop(enqueued[i + 1])
  /\ IsSubSeq(issued, SelectSeq(enqueued, LAMBDA n : n # SweepMark))

\* A sweep has queued the element that stands highest, found second, before
\* the first one, and the call of an element that waited for a slot is sent.
C17_Witness ==
  /\ Len(enqueued) > 3
  /\ enqueued[2] = 3 /\ enqueued[3] = 1
  /\ Len(issued) > MAX_CONCURRENT


\* C18: of three elements on the first screen of which the first and the
\* third carry the same text, a session takes two into its queue, and
\* translatedCount does not go beyond 2.
C18_DuplicateTextOnce ==
  /\ Cardinality({enqueued[i] : i \in 1..Len(enqueued)} \ {SweepMark}) <= 2
  /\ translatedCount <= 2


\* C19: when the full-page scan of an active session runs, every block it
\* finds whose element is not in the queue, not done, and not in
\* translation is registered with the visibility observer.
C19_ScanRegisters ==
  [][(idleCallbacks' < idleCallbacks /\ ~Inactive(Cur)) =>
       LET allBlocks == collectTextNodes(Cur, 1, processedTexts, <<>>)
       IN \A i \in 1..Len(allBlocks) :
            LET n == allBlocks[i].element
            IN (/\ n \notin completedElements
                /\ ~QueueHas(translationQueue, n)
                /\ calls[<<n, FALSE>>] + calls[<<n, TRUE>>] = 0
                /\ n \notin oitPending \cup oitTranslating)
               => n \in observer']_vars


\* C20: in the batch-mode script, an element that was outside the viewport
\* at the start of the session and is in it now is, at some later time,
\* queued or translated, unless the session ends.
C20_ScrolledInTranslated ==
  \A n \in BatchPage :
    (batch.isActive /\ n \notin batch.viewAtStart /\ BatchInViewport(n, scrollY))
      ~> \/ ~batch.isActive
         \/ n \in batch.completedElements
         \/ \E i \in 1..Len(batch.batchQueue) : batch.batchQueue[i] = n


\* C21: in the batch-mode script, no translation of a batch that was in
\* flight when stopTranslation ran is put into the tree.
C21_StoppedBatchDiscarded == ~batch.staleApplied


\* C22: applyTranslation puts a translation into an element only if, at
\* that time, the element is not in completedElements.
C22_DedupAtApplyTime ==
  [][\A n \in page : (n \in wrapped' /\ n \notin wrapped) => n \notin completedElements]_vars


\* C23: a container translated in Append mode never holds more than one
\* translation element.
C23_OneTranslationElement ==
  \A n \in appendMode : translationEls[n] <= 1

\* applyTranslation has run twice in one session for the container, which
\* holds a translation element.
C23_Witness ==
  \E n \in appendMode : applyCalls[n] = 2 /\ translationEls[n] = 1


\* The number of translate calls outstanding for an element.
CallsOf(c, n) == c[<<n, FALSE>>] + c[<<n, TRUE>>]

\* C24: when a translate call settles, its element carries no pending and
\* no translating marker afterwards, and stopTranslation leaves no marker
\* on any element.
C24_MarkersRemoved ==
  /\ [][\A n \in page : CallsOf(calls', n) < CallsOf(calls, n)
            => n \notin oitPending' \cup oitTranslating']_vars
  /\ [](LET t == stopTranslation(Cur) IN t.oitPending \cup t.oitTranslating = {})

\* A call has settled for an element that carried the translating marker.
C24_Witness ==
  \E n \in completedElements \cup skipped :
    /\ CallsOf(calls, n) = 0
    /\ n \notin oitPending \cup oitTranslating
    /\ oitTranslating # {}


\* The position in enqueued of the last element of the first sweep.
FirstSweepEnd ==
  LET later == {i \in 2..Len(enqueued) : enqueued[i] = SweepMark}
  IN IF later = {} THEN Len(enqueued)
     ELSE (CHOOSE i \in later : \A j \in later : i <= j) - 1

\* C25: a session begins with the sweep; no translate call is sent before
\* every result of that sweep is in the queue; and the watchers are started
\* after the results are queued and the dispatch loop has sent its first
\* calls.
C25_StartOrder ==
  isActive /\ watchersAt # <<>> =>
    /\ enqueued # <<>> /\ enqueued[1] = SweepMark
    /\ \A j \in 1..Len(issuedAt) : issuedAt[j] >= FirstSweepEnd
    /\ watchersAt[1] = FirstSweepEnd
    /\ (FirstSweepEnd > 1 => watchersAt[2] > 0)
    /\ (FirstSweepEnd > MAX_CONCURRENT => watchersAt[2] = MAX_CONCURRENT)

\* A session has started on a screen with more elements than
\* MAX_CONCURRENT: its sweep is queued, six calls are sent, the watchers run.
C25_Witness ==
  /\ isActive /\ scrollHandler /\ mutationObserver
  /\ FirstSweepEnd > MAX_CONCURRENT
  /\ watchersAt = <<FirstSweepEnd, MAX_CONCURRENT>>
  /\ Len(translationQueue) > 0


\* C26: a step in which applyTranslation puts a wrapper or a translation
\* element into the tree does not arm the timer of the mutation watcher.
C26_ApplyArmsNoRescan ==
  [][(wrapped' # wrapped /\ wrapped \subseteq wrapped') => (mutationTimer' => mutationTimer)]_vars

\* In an active session with the mutation watcher attached, a translation
\* was appended to a container and another was put in place of a text node.
C26_Witness ==
  /\ isActive /\ mutationObserver
  /\ \E n \in appendMode : translationEls[n] = 1
  /\ wrapped \ appendMode # {}


\* C27: a scroll event in an active session leaves exactly one sweep
\* pending, due after 50 ms if the page moved by more than 200 px since the
\* event before and after 100 ms otherwise; so at most one sweep is pending
\* at any time.
C27_ScrollDebounce ==
  /\ [][(scrollY' # scrollY /\ scrollHandler /\ ~Inactive(Cur)) =>
          scrollTimers' = <<IF Abs(scrollY' - scrollY) > 200 THEN 50 ELSE 100>>]_vars
  /\ [](Len(scrollTimers) <= 1)

\* In the first session the page has come from the middle position to the
\* last one by a scroll event of 200 px, and no sweep has run at the middle
\* position (it would have found element 2): the sweep of the event that
\* led there was cancelled, and one sweep is pending after 100 ms.
C27_Witness ==
  /\ isActive /\ scrollHandler /\ stopsLeft = ScrollStops
  /\ scrollY = 300
  /\ scrollTimers = <<SCROLL_DEBOUNCE>>
  /\ CallsOf(calls, 2) = 0 /\ 2 \notin completedElements \cup skipped
  /\ 2 \notin oitPending \cup oitTranslating

\* C28: the timer a periodic run sets has a delay of 8 s when the queue
\* holds more than 50 blocks, 5 s when more than 20, 3 s when more than 10
\* and 2 s otherwise, and the run leaves out its sweep exactly when the queue
\* holds more than 50 blocks.
C28_AdaptiveRescan ==
  \A i \in 1..Len(scanned) :
    LET r == scanned[i]
    IN /\ r.interval = (IF r.queued > 50 THEN 8000
                        ELSE IF r.queued > 20 THEN 5000
                        ELSE IF r.queued > 10 THEN 3000 ELSE 2000)
       /\ (~r.swept) <=> (r.queued > 50)

\* The delays alone.
C28_Delays ==
  \A i \in 1..Len(scanned) :
    scanned[i].interval = (IF scanned[i].queued > 50 THEN 8000
                           ELSE IF scanned[i].queued > 20 THEN 5000
                           ELSE IF scanned[i].queued > 10 THEN 3000 ELSE 2000)

\* A periodic run has read a queue of 51 blocks, set a timer of 8 s and left
\* out its sweep.
C28_DelaysWitness ==
  /\ isActive
  /\ scanned = <<[queued |-> 51, interval |-> 8000, swept |-> FALSE]>>

\* C29: when all discovered blocks have been processed (the queue is empty
\* and no translate call is in flight), the completed event has been emitted
\* to the caller.
C29_CompletedEmitted ==
  (/\ isActive /\ ~shouldStop
   /\ completedElements \cup skipped # {}
   /\ translationQueue = <<>>
   /\ activeTranslations = 0 /\ Outstanding(calls) = 0)
    => "complete" \in emitted

\* No callback of the content script emits the completed event.
C29_NeverEmitted == "complete" \notin emitted

\* C30: a block evicted from the full queue is not lost: once a later sweep
\* has run, no element of the region of interest is left evicted (marked
\* oit-pending, not in the queue, not completed).
C30_EvictedRequeued ==
  (scanned # <<>> /\ scanned[1].swept) =>
    \A n \in page : ~(Evicted(n) /\ InRegion(Cur, n))

\* An evicted element stays evicted through every step of the session.
C30_EvictedForever ==
  [][\A n \in page : Evicted(n) => Evicted(n)']_vars

\* C31: translatedCount is incremented only when applyTranslation mutated
\* the tree: every step that raises it raises it by one and inserts a
\* translation (a wrapper, or a translation element in append mode).
C31_CountIsInsertions ==
  [][translatedCount' > translatedCount =>
       /\ translatedCount' = translatedCount + 1
       /\ \E n \in page : \/ n \in wrapped' \ wrapped
                           \/ translationEls'[n] > translationEls[n]]_vars

\* The queue holds blocks, no processQueue loop is suspended and no translate
\* call is outstanding whose finally block could start one.
QueueStuck ==
  /\ ~Inactive(Cur)
  /\ Len(translationQueue) > 0
  /\ sleepers = 0
  /\ Outstanding(calls) = 0

\* C32: while the session stays active and every translate call settles, the
\* queue is never stuck, and every block in the queue eventually leaves it
\* (dispatched, or dropped as completed).
C32_QueueDrains ==
  /\ []~QueueStuck
  /\ \A n \in OrderPage :
       [](QueueHas(translationQueue, n) => <>~QueueHas(translationQueue, n))

\* Every element has been processed on a page with more elements than
\* slots, so that the loop has waited for a slot.
C32_Witness ==
  /\ isActive /\ ~shouldStop
  /\ translationQueue = <<>> /\ sleepers = 0 /\ ~isProcessing
  /\ completedElements \cup skipped = OrderPage
  /\ Cardinality(OrderPage) > MAX_CONCURRENT

\* C33: for a batch request of n texts the response carries exactly n
\* translations, and the translation applied to the i-th block is made of
\* the i-th text only.
C33_BatchAligned ==
  /\ sep.phase \in {"parsed", "applied"} => Len(sep.translations) = Len(sep.texts)
  /\ sep.phase = "applied" =>
       \A i \in 1..Len(sep.applied) :
         \A j \in 1..Len(sep.applied[i]) : sep.applied[i][j].src = i

\* The same for the batches whose texts do not hold the characters [SEP].
C33_AlignedWithoutSep ==
  (\A i \in 1..Len(sep.texts) : \A j \in 1..Len(sep.texts[i]) : sep.texts[i][j] # "S") =>
    C33_BatchAligned

HoldersOf(kind) ==
  Cardinality({i \in 1..Len(limiter.holders) : limiter.holders[i].kind = kind})

C35_ActiveIsOutstanding ==
  /\ activeTranslations = Outstanding(calls)
  /\ activeTranslations >= 0

\* The part of C35 about the sign alone.
C35_ActiveNotNegative == activeTranslations >= 0

\* C36: at most one processQueue loop is live at any time (between callbacks
\* a live loop is one suspended in sleep(50)), also after stopTranslation
\* followed by startTranslation while a loop of the stopped session is
\* suspended.
C36_OneLoop == sleepers <= 1

\* The timers of adaptiveScan that are pending: the one that
\* state.periodicScanTimer names, and the later ones of the chains.
PendingChains == (IF periodicScanTimer THEN 1 ELSE 0) + looseChains

\* C37: at any time at most one periodic-rescan timer chain is pending, also
\* after stopTranslation followed by startTranslation.
C37_OneChain == PendingChains <= 1

\* The part of C37 about stopTranslation: in a stopped session no periodic
\* timer is pending.
C37_StopCancels == ~isActive => PendingChains = 0

====
